---- MODULE Spec2Model ----
(***************************************************************************)
(* The user service of app/main.py: a process-wide list of user records    *)
(* (users_db) and the six request handlers that read or change it.  Every  *)
(* handler is an `async def` without an await, so a request runs from      *)
(* start to end without interleaving: one action per request.              *)
(***************************************************************************)
EXTENDS Integers, Sequences, FiniteSets, TLC

\* ------------------------------------------------------------------ bounds
\* A store of MaxUsers records takes no further create request (the code has
\* no cap).
MaxUsers == 2
\* The distinct email strings a request may carry.
NumEmails == 2

\* ------------------------------------------------------- program constants
\* The age range of create_user: `user.age < 0 or user.age > 150`.
MinAge == 0
MaxAge == 150

\* ------------------------------------------------------------ JSON values
\* A field of a JSON request body: absent, a string or an integer.  Strings
\* are numbered: "str" 1, 2, .. stand for distinct strings, none of which
\* spells a number ("not_a_number" in the tests).
Absent == [kind |-> "absent", val |-> 0]
Str(s) == [kind |-> "str", val |-> s]
Int_(n) == [kind |-> "int", val |-> n]

\* Two name strings ("First User", "Second User").
Names == {1, 2}
Emails == 1..NumEmails
Ages == {MinAge - 1, MinAge, MaxAge, MaxAge + 1}
\* The ids a path may carry: those a store of MaxUsers records can hold, and
\* one that no record can have.
UserIds == 1..(MaxUsers + 1)

IdInputs == {Absent, Int_(1)}
NameInputs == {Absent} \cup {Str(n) : n \in Names}
EmailInputs == {Absent} \cup {Str(e) : e \in Emails}
AgeInputs == {Absent, Str(1)} \cup {Int_(a) : a \in Ages}
Bodies == [id : IdInputs, name : NameInputs, email : EmailInputs, age : AgeInputs]
NoBody == [id |-> Absent, name |-> Absent, email |-> Absent, age |-> Absent]

\* ------------------------------------------------------------------ state
VARIABLES
    users_db,   \* the list of stored records, in insertion order
    req,        \* the request served last
    resp,       \* the response to it
    created,    \* the users stored by the successful creates so far, in order
    deleted,    \* whether some delete has succeeded so far
    prev_db,    \* users_db as it was when the request served last arrived
    gone,       \* the emails a delete removed and no request before the last stored again
    imported,   \* the list object test_main.py imported as users_db
    rebound,    \* whether the global users_db is another object than that one
    conc        \* the two concurrent create requests of SpecConc
vars == <<users_db, req, resp, created, deleted, prev_db, gone, imported, rebound, conc>>
\* What the serial requests of Spec leave alone.
other == <<imported, rebound, conc>>
\* The emails of the stored records.
StoredEmails(db) == {db[i].email : i \in 1..Len(db)}

\* ------------------------------------------------------------- responses
\* A response: the status code, the `detail` of an HTTPException ("" when
\* there is none), the records of the body, and the other keys of the body
\* as optional values (<<>> for a key the body does not have).
Response(status, detail, users, users_count, message) ==
    [status |-> status, detail |-> detail, users |-> users,
     users_count |-> users_count, message |-> message]
HTTPException(status_code, detail) == Response(status_code, detail, <<>>, <<>>, <<>>)
UserResponse(user_data) == Response(200, "", <<user_data>>, <<>>, <<>>)
NoResponse == Response(0, "", <<>>, <<>>, <<>>)
Request(op, body, user_id) == [op |-> op, body |-> body, user_id |-> user_id]

\* ------------------------------------------------------------- the model
\* class User: name and email are required strings, age a required integer,
\* id an optional integer.
UserShapeOk(body) ==
    /\ body.id.kind \in {"absent", "int"}
    /\ body.name.kind = "str"
    /\ body.email.kind = "str"
    /\ body.age.kind = "int"

\* The User object the framework hands to create_user.
User(body) ==
    [id |-> IF body.id.kind = "int" THEN <<body.id.val>> ELSE <<>>,
     name |-> body.name.val, email |-> body.email.val, age |-> body.age.val]

\* Variants of the range test: `>=` for `>`, and the upper test left out.
AgeOutOfRange_Exclusive(age) == age < MinAge \/ age >= MaxAge
AgeOutOfRange_NoUpper(age) == age < MinAge

\* `user.age < 0 or user.age > 150`
AgeOutOfRange(age) == age < MinAge \/ age > MaxAge

\* Variant of the email scan: any(...) over nothing.
EmailExists_Never(db, email) == FALSE

\* any(u["email"] == user.email for u in users_db)
EmailExists(db, email) == \E i \in 1..Len(db) : db[i].email = email

\* Variant of the id rule: len(users_db), without the + 1.
NextUserId_ZeroBased(db) == Len(db)
\* Variant of the id rule: the largest stored id plus one.
NextUserId_MaxPlusOne(db) ==
    IF db = <<>> THEN 1
    ELSE (CHOOSE m \in {db[i].id : i \in 1..Len(db)} :
              \A i \in 1..Len(db) : db[i].id <= m) + 1

\* user_id = len(users_db) + 1
NextUserId(db) == Len(db) + 1

\* The dict create_user stores.
UserData(db, user) ==
    [id |-> NextUserId(db), name |-> user.name, email |-> user.email, age |-> user.age]

\* Variant of create_user: the duplicate test also compares the names.
create_user_SameNameOnly(db, user) ==
    IF AgeOutOfRange(user.age)
    THEN [db |-> db, resp |-> HTTPException(400, "Age must be between 0 and 150")]
    ELSE IF \E i \in 1..Len(db) : db[i].email = user.email /\ db[i].name = user.name
    THEN [db |-> db, resp |-> HTTPException(400, "Email already exists")]
    ELSE [db |-> Append(db, UserData(db, user)),
          resp |-> UserResponse(UserData(db, user))]

\* Variant of create_user: the email scan runs before the age test.
create_user_EmailFirst(db, user) ==
    IF EmailExists(db, user.email)
    THEN [db |-> db, resp |-> HTTPException(400, "Email already exists")]
    ELSE IF AgeOutOfRange(user.age)
    THEN [db |-> db, resp |-> HTTPException(400, "Age must be between 0 and 150")]
    ELSE [db |-> Append(db, UserData(db, user)),
          resp |-> UserResponse(UserData(db, user))]

\* Variant of create_user: the record is appended before the email scan.
create_user_AppendFirst(db, user) ==
    IF AgeOutOfRange(user.age)
    THEN [db |-> db, resp |-> HTTPException(400, "Age must be between 0 and 150")]
    ELSE IF EmailExists(db, user.email)
    THEN [db |-> Append(db, UserData(db, user)),
          resp |-> HTTPException(400, "Email already exists")]
    ELSE [db |-> Append(db, UserData(db, user)),
          resp |-> UserResponse(UserData(db, user))]

\* create_user: the store and the response it leaves.
create_user(db, user) ==
    IF AgeOutOfRange(user.age)
    THEN [db |-> db, resp |-> HTTPException(400, "Age must be between 0 and 150")]
    ELSE IF EmailExists(db, user.email)
    THEN [db |-> db, resp |-> HTTPException(400, "Email already exists")]
    ELSE [db |-> Append(db, UserData(db, user)),
          resp |-> UserResponse(UserData(db, user))]

\* Variant of POST /users: the age rule runs on whatever integer age the
\* body has before the shape of the body is checked.
post_users_RulesFirst(db, body) ==
    IF body.age.kind = "int" /\ AgeOutOfRange(body.age.val)
    THEN [db |-> db, resp |-> HTTPException(400, "Age must be between 0 and 150")]
    ELSE IF ~UserShapeOk(body)
    THEN [db |-> db, resp |-> HTTPException(422, "validation error")]
    ELSE create_user(db, User(body))

\* POST /users: the body is validated against User first (422), and
\* create_user runs only on a body of the right shape.
post_users(db, body) ==
    IF ~UserShapeOk(body)
    THEN [db |-> db, resp |-> HTTPException(422, "validation error")]
    ELSE create_user(db, User(body))

\* Variant of the lookup: by position, users_db[user_id - 1].
FirstWithId_ByPosition(db, user_id) ==
    IF user_id \in 1..Len(db) THEN <<db[user_id]>> ELSE <<>>

\* Variant of the lookup: the last record with the id.
FirstWithId_Last(db, user_id) ==
    LET idx == {i \in 1..Len(db) : db[i].id = user_id}
    IN IF idx = {} THEN <<>>
       ELSE <<db[CHOOSE i \in idx : \A j \in idx : i >= j]>>

\* next((u for u in users_db if u["id"] == user_id), None): <<>> is None.
FirstWithId(db, user_id) ==
    LET idx == {i \in 1..Len(db) : db[i].id = user_id}
    IN IF idx = {} THEN <<>>
       ELSE <<db[CHOOSE i \in idx : \A j \in idx : i <= j]>>

\* get_user
get_user(db, user_id) ==
    IF FirstWithId(db, user_id) = <<>>
    THEN HTTPException(404, "User not found")
    ELSE UserResponse(FirstWithId(db, user_id)[1])

\* Variant of the filter: users_db.remove(user), the first match only.
WithoutId_FirstOnly(db, user_id) ==
    LET idx == {i \in 1..Len(db) : db[i].id = user_id}
        k == CHOOSE i \in idx : \A j \in idx : i <= j
    IN IF idx = {} THEN db
       ELSE [i \in 1..(Len(db) - 1) |-> IF i < k THEN db[i] ELSE db[i + 1]]

\* [u for u in users_db if u["id"] != user_id]
WithoutId(db, user_id) == SelectSeq(db, LAMBDA u : u.id # user_id)

\* Variant of delete_user: no `global users_db`, the filtered list is bound
\* to a local name and the store stays as it was.
delete_user_NoGlobal(db, user_id) ==
    IF FirstWithId(db, user_id) = <<>>
    THEN [db |-> db, resp |-> HTTPException(404, "User not found")]
    ELSE [db |-> db,
          resp |-> Response(200, "", <<>>, <<>>, <<"deleted", user_id>>)]

\* delete_user: the store and the response it leaves.
delete_user(db, user_id) ==
    IF FirstWithId(db, user_id) = <<>>
    THEN [db |-> db, resp |-> HTTPException(404, "User not found")]
    ELSE [db |-> WithoutId(db, user_id),
          resp |-> Response(200, "", <<>>, <<>>, <<"deleted", user_id>>)]

\* get_users
get_users(db) == Response(200, "", db, <<>>, <<>>)

\* health_check
health_check(db) == Response(200, "", <<>>, <<Len(db)>>, <<>>)

\* root
root == Response(200, "", <<>>, <<>>, <<"Hello CI/CD World!">>)

\* ---------------------------------------------------------------- actions
Init ==
    /\ users_db = <<>>
    /\ req = Request("none", NoBody, 0)
    /\ resp = NoResponse
    /\ created = <<>>
    /\ deleted = FALSE
    /\ prev_db = <<>>
    /\ gone = {}
    /\ imported = <<>>
    /\ rebound = FALSE
    /\ conc = <<>>

\* GET /
GetRoot ==
    /\ req' = Request("root", NoBody, 0)
    /\ resp' = root
    /\ prev_db' = users_db
    /\ gone' = gone \ StoredEmails(users_db)
    /\ UNCHANGED <<users_db, created, deleted, other>>

\* GET /health
GetHealth ==
    /\ req' = Request("health", NoBody, 0)
    /\ resp' = health_check(users_db)
    /\ prev_db' = users_db
    /\ gone' = gone \ StoredEmails(users_db)
    /\ UNCHANGED <<users_db, created, deleted, other>>

\* POST /users
PostUsers ==
    \E body \in Bodies :
        /\ Len(users_db) < MaxUsers
        /\ req' = Request("create", body, 0)
        /\ users_db' = post_users(users_db, body).db
        /\ resp' = post_users(users_db, body).resp
        /\ created' = IF resp'.status = 200 /\ ~deleted
                      THEN Append(created, [name |-> body.name.val,
                                            email |-> body.email.val,
                                            age |-> body.age.val])
                      ELSE created
        /\ prev_db' = users_db
        /\ gone' = gone \ StoredEmails(users_db)
        /\ UNCHANGED <<deleted, other>>

\* GET /users
GetUsers ==
    /\ req' = Request("list", NoBody, 0)
    /\ resp' = get_users(users_db)
    /\ prev_db' = users_db
    /\ gone' = gone \ StoredEmails(users_db)
    /\ UNCHANGED <<users_db, created, deleted, other>>

\* GET /users/{user_id}
GetUser ==
    \E user_id \in UserIds :
        /\ req' = Request("get", NoBody, user_id)
        /\ resp' = get_user(users_db, user_id)
        /\ prev_db' = users_db
        /\ gone' = gone \ StoredEmails(users_db)
        /\ UNCHANGED <<users_db, created, deleted, other>>

\* DELETE /users/{user_id}
DeleteUser ==
    \E user_id \in UserIds :
        /\ req' = Request("delete", NoBody, user_id)
        /\ users_db' = delete_user(users_db, user_id).db
        /\ resp' = delete_user(users_db, user_id).resp
        /\ deleted' = (deleted \/ resp'.status = 200)
        /\ created' = IF deleted' THEN <<>> ELSE created
        /\ prev_db' = users_db
        /\ gone' = (gone \ StoredEmails(users_db)) \cup
                    (IF resp'.status = 200
                     THEN {users_db[i].email : i \in {j \in 1..Len(users_db) : users_db[j].id = user_id}}
                     ELSE {})
        /\ UNCHANGED other

Next ==
    \/ GetRoot
    \/ GetHealth
    \/ PostUsers
    \/ GetUsers
    \/ GetUser
    \/ DeleteUser

Spec == Init /\ [][Next]_vars

\* ------------------------------------------------- the test fixture
\* test_main.py binds its own name users_db to the list object that the
\* global users_db of app.main refers to at import time (`from app.main
\* import app, users_db`).  create_user appends to the object the global
\* refers to; delete_user binds the global to a new list and leaves the old
\* object as it was.  `imported` is the content of the object the tests
\* hold; while ~rebound it is the object of the global, with that content.
InitFixture == Init

\* POST /users, between two runs of the fixture.
FxPostUsers ==
    \E body \in Bodies :
        /\ Len(users_db) < MaxUsers
        /\ req' = Request("create", body, 0)
        /\ users_db' = post_users(users_db, body).db
        /\ resp' = post_users(users_db, body).resp
        /\ imported' = IF rebound THEN imported ELSE users_db'
        /\ UNCHANGED <<rebound, created, deleted, prev_db, gone, conc>>

\* DELETE /users/{user_id}: `global users_db; users_db = [...]`.
FxDeleteUser ==
    \E user_id \in UserIds :
        /\ req' = Request("delete", NoBody, user_id)
        /\ users_db' = delete_user(users_db, user_id).db
        /\ resp' = delete_user(users_db, user_id).resp
        /\ rebound' = (rebound \/ resp'.status = 200)
        /\ UNCHANGED <<imported, created, deleted, prev_db, gone, conc>>

\* The handlers that only read: root, health_check, get_users, get_user.
FxRead ==
    \E rr \in {<<Request("root", NoBody, 0), root>>,
               <<Request("health", NoBody, 0), health_check(users_db)>>,
               <<Request("list", NoBody, 0), get_users(users_db)>>}
              \cup {<<Request("get", NoBody, k), get_user(users_db, k)>> : k \in UserIds} :
        /\ req' = rr[1]
        /\ resp' = rr[2]
        /\ UNCHANGED <<users_db, imported, rebound, created, deleted, prev_db, gone, conc>>

\* clear_db: users_db.clear() on the object the tests imported.
FxClearDb ==
    /\ req' = Request("clear_db", NoBody, 0)
    /\ resp' = NoResponse
    /\ imported' = <<>>
    /\ users_db' = IF rebound THEN users_db ELSE <<>>
    /\ UNCHANGED <<rebound, created, deleted, prev_db, gone, conc>>

NextFixture ==
    \/ FxPostUsers
    \/ FxDeleteUser
    \/ FxRead
    \/ FxClearDb

SpecFixture == InitFixture /\ [][NextFixture]_vars

\* ------------------------------------------- two concurrent create requests
\* create_user run by two requests at once, without mutual exclusion, in two
\* steps each: the validation (age test, email scan, length read, lines
\* 43-51) and the append (line 52).
Procs == {1, 2}
\* The users of the two requests: bodies of the right shape.
ConcUsers == {User(b) : b \in {x \in Bodies : UserShapeOk(x) /\ x.id = Absent}}
\* The stores the two requests may find: empty, or one record.
ConcStores == {<<>>, <<[id |-> 1, name |-> 1, email |-> 1, age |-> MinAge]>>}

InitConc ==
    /\ users_db \in ConcStores
    /\ conc \in [proc : [Procs -> [pc : {"start"}, user : ConcUsers,
                                   user_data : {<<>>}, resp : {NoResponse}]],
                 raced : {FALSE}]
    /\ req = Request("none", NoBody, 0)
    /\ resp = NoResponse
    /\ created = <<>>
    /\ deleted = FALSE
    /\ prev_db = <<>>
    /\ gone = {}
    /\ imported = <<>>
    /\ rebound = FALSE

\* Variant of the append: the id is taken from the length at the append.
conc_append_FreshId(db, user_data) ==
    Append(db, [user_data EXCEPT !.id = Len(db) + 1])

\* users_db.append(user_data)
conc_append(db, user_data) == Append(db, user_data)

\* Lines 43-51 of request p: a 400, or the user_data to append.
ConcValidate(p) ==
    LET me == conc.proc[p]
        out == create_user(users_db, me.user)
    IN /\ me.pc = "start"
       /\ conc' =
            IF out.resp.status = 200
            THEN [proc |-> [conc.proc EXCEPT ![p] =
                              [me EXCEPT !.pc = "validated",
                                         !.user_data = <<UserData(users_db, me.user)>>]],
                  raced |-> (conc.raced \/ \E q \in Procs \ {p} :
                                               conc.proc[q].pc = "validated")]
            ELSE [conc EXCEPT !.proc[p] =
                              [me EXCEPT !.pc = "done", !.resp = out.resp]]
       /\ UNCHANGED <<users_db, req, resp, created, deleted, prev_db, gone,
                      imported, rebound>>

\* Lines 52-53 of request p.
ConcAppend(p) ==
    LET me == conc.proc[p]
    IN /\ me.pc = "validated"
       /\ users_db' = conc_append(users_db, me.user_data[1])
       /\ conc' = [conc EXCEPT !.proc[p] =
                       [me EXCEPT !.pc = "done",
                                  !.resp = UserResponse(me.user_data[1])]]
       /\ UNCHANGED <<req, resp, created, deleted, prev_db, gone, imported, rebound>>

NextConc ==
    \/ \E p \in Procs : ConcValidate(p)
    \/ \E p \in Procs : ConcAppend(p)

SpecConc == InitConc /\ [][NextConc]_vars

\* ------------------------------------------------------------- properties
\* Some stored record has the id / the email.
HasId(db, user_id) == \E i \in DOMAIN db : db[i].id = user_id
HasEmail(db, email) == \E i \in DOMAIN db : db[i].email = email
\* The step just taken served a create request whose body has the shape of a
\* User: a name, an email and an integer age.
WellFormedCreate(r) ==
    /\ r.op = "create"
    /\ r.body.name.kind = "str"
    /\ r.body.email.kind = "str"
    /\ r.body.age.kind = "int"

\* C1: in every reachable state no two stored records have the same id, and
\* every stored id is a positive integer.
C1_IdsUniquePositive ==
    /\ \A i, j \in DOMAIN users_db : users_db[i].id = users_db[j].id => i = j
    /\ \A i \in DOMAIN users_db : users_db[i].id > 0

\* C2: right after a successful create returned a record with id k, get-by-id
\* for k succeeds and returns the record just created (same name, email, age).
C2_GetReturnsCreated ==
    (req.op = "create" /\ resp.status = 200) =>
        /\ get_user(users_db, resp.users[1].id).status = 200
        /\ get_user(users_db, resp.users[1].id).users = resp.users

\* C3: in every reachable state no two stored records have the same email.
C3_EmailsUnique ==
    \A i, j \in DOMAIN users_db : users_db[i].email = users_db[j].email => i = j
\* Two records are stored, the second one by a create that followed a delete.
C3_Witness ==
    /\ Len(users_db) = 2
    /\ deleted
    /\ req.op = "create"
    /\ resp.status = 200

\* C4: a create request whose email is the email of a stored record and whose
\* age is within 0..150 is rejected with 400 "Email already exists", whatever
\* its name and age, and the number of stored records does not change.
C4_DuplicateEmailRejected ==
    [][ ( /\ WellFormedCreate(req')
          /\ req'.body.age.val >= MinAge
          /\ req'.body.age.val <= MaxAge
          /\ HasEmail(users_db, req'.body.email.val) )
        => ( /\ resp'.status = 400
             /\ resp'.detail = "Email already exists"
             /\ Len(users_db') = Len(users_db) ) ]_vars
\* A create was rejected for its email although its name and its age differ
\* from those of the stored record with that email.
C4_Witness ==
    /\ req.op = "create"
    /\ resp.status = 400
    /\ resp.detail = "Email already exists"
    /\ \E i \in DOMAIN users_db :
        /\ users_db[i].email = req.body.email.val
        /\ users_db[i].name # req.body.name.val
        /\ users_db[i].age # req.body.age.val

\* C5: a create request with age below 0 or above 150 is rejected with 400
\* "Age must be between 0 and 150"; one with age exactly 0 or exactly 150 and
\* an email not currently stored succeeds.
C5_AgeRange ==
    [][ /\ ( WellFormedCreate(req') /\
             (req'.body.age.val < MinAge \/ req'.body.age.val > MaxAge) )
           => ( /\ resp'.status = 400
                /\ resp'.detail = "Age must be between 0 and 150" )
        /\ ( WellFormedCreate(req') /\ req'.body.age.val \in {MinAge, MaxAge}
             /\ ~HasEmail(users_db, req'.body.email.val) )
           => resp'.status = 200 ]_vars
\* A create with age 150 succeeded on a store that already held a record.
C5_Witness ==
    /\ req.op = "create"
    /\ req.body.age.val = MaxAge
    /\ resp.status = 200
    /\ Len(users_db) = 2

\* C6: from the empty store, after N successful creates and no delete, list
\* returns exactly N records, in creation order, the i-th with id i.
C6_ListAfterCreates ==
    ~deleted =>
        /\ Len(get_users(users_db).users) = Len(created)
        /\ \A i \in 1..Len(created) :
            get_users(users_db).users[i] =
                [id |-> i, name |-> created[i].name,
                 email |-> created[i].email, age |-> created[i].age]
\* A list request answered after MaxUsers creates and no delete.
C6_Witness ==
    /\ ~deleted
    /\ Len(created) = MaxUsers
    /\ req.op = "list"
    /\ resp.status = 200
    /\ Len(resp.users) = MaxUsers

\* C7: after a successful delete of id k, get-by-id for k returns 404, and
\* the users_count of /health is exactly one less than before the delete.
C7_DeleteRemovesOne ==
    [][ (req'.op = "delete" /\ resp'.status = 200)
        => ( /\ get_user(users_db', req'.user_id).status = 404
             /\ health_check(users_db').users_count[1]
                  = health_check(users_db).users_count[1] - 1 ) ]_vars

\* C8: get-by-id and delete-by-id return 404 "User not found" for an id that
\* no stored record has, and only then: if some record has the id, both
\* succeed.
C8_NotFoundIffAbsent ==
    [][ (req'.op \in {"get", "delete"})
        => IF HasId(users_db, req'.user_id)
           THEN resp'.status = 200
           ELSE resp'.status = 404 /\ resp'.detail = "User not found" ]_vars
\* A get was answered 404 by a store that holds records, none with that id,
\* the id being a position of the list.
C8_Witness ==
    /\ req.op = "get"
    /\ resp.status = 404
    /\ users_db # <<>>
    /\ req.user_id <= Len(users_db)

\* C9: a create request that omits name, email or age, or carries an age that
\* is not an integer, is rejected with 422, never 400, and stores nothing,
\* also when the fields it has would break a business rule.
C9_ShapeBeforeRules ==
    [][ ( /\ req'.op = "create"
          /\ \/ req'.body.name.kind = "absent"
             \/ req'.body.email.kind = "absent"
             \/ req'.body.age.kind \in {"absent", "str"} )
        => ( resp'.status = 422 /\ users_db' = users_db ) ]_vars
\* A 422 for a body without a name whose email is stored and whose age is out
\* of range.
C9_Witness ==
    /\ req.op = "create"
    /\ resp.status = 422
    /\ req.body.name.kind = "absent"
    /\ req.body.age.kind = "int"
    /\ req.body.age.val > MaxAge
    /\ req.body.email.kind = "str"
    /\ HasEmail(users_db, req.body.email.val)

\* C10: in every reachable state every stored record has an age between 0 and
\* 150 inclusive.
C10_StoredAgesInRange ==
    \A i \in DOMAIN users_db : users_db[i].age >= 0 /\ users_db[i].age <= 150
\* Both ends of the range are stored.
C10_Witness ==
    /\ \E i \in DOMAIN users_db : users_db[i].age = 0
    /\ \E i \in DOMAIN users_db : users_db[i].age = 150

\* The records of db whose id is not user_id, in the order of db.
RECURSIVE OthersOf(_, _)
OthersOf(db, user_id) ==
    IF db = <<>> THEN <<>>
    ELSE IF db[1].id = user_id THEN OthersOf(Tail(db), user_id)
    ELSE <<db[1]>> \o OthersOf(Tail(db), user_id)

\* C11: every successful create, also after deletions, appends exactly one
\* record at the end of the store, with id = the number of records stored
\* before the create plus one and the submitted name, email and age; the
\* records stored before stay unchanged and in the same order.
C11_CreateAppendsCountPlusOne ==
    (req.op = "create" /\ resp.status = 200) =>
        users_db = prev_db \o
            << [id |-> Len(prev_db) + 1, name |-> req.body.name.val,
                email |-> req.body.email.val, age |-> req.body.age.val] >>
\* A create after a delete stored id 2 beside a record of id 2: the largest
\* id plus one, or a counter of the creates, would be 3.
C11_Witness ==
    /\ req.op = "create"
    /\ resp.status = 200
    /\ deleted
    /\ Len(prev_db) = 1
    /\ prev_db[1].id = 2
    /\ users_db[2].id = 2

\* C12: a create request with both an age outside 0..150 and the email of a
\* stored record is answered 400 "Age must be between 0 and 150", never
\* "Email already exists".
C12_AgeRuleFirst ==
    ( /\ WellFormedCreate(req)
      /\ (req.body.age.val < 0 \/ req.body.age.val > 150)
      /\ HasEmail(prev_db, req.body.email.val) )
    => ( /\ resp.status = 400
         /\ resp.detail = "Age must be between 0 and 150" )
\* Such a request was served.
C12_Witness ==
    /\ WellFormedCreate(req)
    /\ req.body.age.val > 150
    /\ HasEmail(prev_db, req.body.email.val)
    /\ resp.status = 400

\* C13: a successful delete of id k removes every stored record whose id is
\* k, all of them if several share it, and keeps every other record,
\* unchanged and in the same relative order.
C13_DeleteRemovesAllWithId ==
    (req.op = "delete" /\ resp.status = 200) =>
        /\ users_db = OthersOf(prev_db, req.user_id)
        /\ ~HasId(users_db, req.user_id)
\* One delete removed two records that shared the id.
C13_Witness ==
    /\ req.op = "delete"
    /\ resp.status = 200
    /\ Len(prev_db) = 2
    /\ prev_db[1].id = req.user_id
    /\ prev_db[2].id = req.user_id
    /\ users_db = <<>>

\* C14: a get-by-id for k, when some stored record has id k, returns the
\* earliest-inserted stored record among those with id k.
C14_GetReturnsEarliest ==
    (req.op = "get" /\ HasId(users_db, req.user_id)) =>
        /\ resp.status = 200
        /\ \E i \in DOMAIN users_db :
            /\ users_db[i].id = req.user_id
            /\ \A j \in 1..(i - 1) : users_db[j].id # req.user_id
            /\ resp.users = <<users_db[i]>>
\* A get for an id that two different stored records have.
C14_Witness ==
    /\ req.op = "get"
    /\ resp.status = 200
    /\ Len(users_db) = 2
    /\ users_db[1].id = req.user_id
    /\ users_db[2].id = req.user_id
    /\ users_db[1] # users_db[2]

\* C17: the store changes only on a successful create or delete: root,
\* health, list and get-by-id, and every create or delete answered 400, 404
\* or 422, leave the records and their order as they were.
C17_OnlySuccessChangesStore ==
    ( \/ req.op \in {"root", "health", "list", "get"}
      \/ resp.status \in {400, 404, 422} )
    => users_db = prev_db
\* A create was answered 400 for its email by a store that holds records.
C17_Witness ==
    /\ req.op = "create"
    /\ resp.status = 400
    /\ resp.detail = "Email already exists"
    /\ users_db # <<>>

\* C18: email uniqueness is tested against the stored records only: once a
\* delete has removed the record holding email e, no stored record has e,
\* and a create with e and an age within 0..150 succeeds.
C18_DeletedEmailReusable ==
    /\ (req.op = "delete" /\ resp.status = 200) =>
            \A i \in DOMAIN prev_db :
                prev_db[i].id = req.user_id => ~HasEmail(users_db, prev_db[i].email)
    /\ ( /\ WellFormedCreate(req)
         /\ req.body.age.val >= 0
         /\ req.body.age.val <= 150
         /\ req.body.email.val \in gone
         /\ ~HasEmail(prev_db, req.body.email.val) )
       => ( resp.status = 200 /\ HasEmail(users_db, req.body.email.val) )
\* A create stored an email again that a delete had removed.
C18_Witness ==
    /\ WellFormedCreate(req)
    /\ resp.status = 200
    /\ req.body.email.val \in gone
    /\ users_db[Len(users_db)].email = req.body.email.val

\* Both concurrent requests were answered 200.
ConcBothStored ==
    \A p \in Procs : conc.proc[p].pc = "done" /\ conc.proc[p].resp.status = 200
\* The two records stored last.
ConcLastTwo == <<users_db[Len(users_db) - 1], users_db[Len(users_db)]>>

\* C15: two create requests run concurrently, validation and append being
\* separate steps without mutual exclusion, reach a state in which two
\* stored records share an email or an id: whenever both validated before
\* either appended and both were answered 200, the two records share their
\* id, and their email too if the requests carried the same email; requests
\* served one after the other store different ids and different emails.
C15_RaceSharesIdOrEmail ==
    ConcBothStored =>
        /\ Len(users_db) >= 2
        /\ conc.raced =>
            /\ ConcLastTwo[1].id = ConcLastTwo[2].id
            /\ (conc.proc[1].user.email = conc.proc[2].user.email
                    => ConcLastTwo[1].email = ConcLastTwo[2].email)
        /\ ~conc.raced =>
            /\ ConcLastTwo[1].id # ConcLastTwo[2].id
            /\ ConcLastTwo[1].email # ConcLastTwo[2].email
\* Two stored records share their email and their id.
C15_Witness ==
    /\ ConcBothStored
    /\ \E i, j \in DOMAIN users_db :
        /\ i # j
        /\ users_db[i].email = users_db[j].email
        /\ users_db[i].id = users_db[j].id

\* C16: the clear_db fixture clears the users database: after any requests,
\* successful deletes included, clear() on the list object the tests
\* imported leaves the store of the application empty.
C16_ClearDbEmptiesStore ==
    req.op = "clear_db" => users_db = <<>>

====
